---- MODULE Spec2Model ----
(***************************************************************************)
(* Model of parser/warc_parser.py: the streaming WARC/WET record splitter  *)
(* (Parser.parse, a generator) and the per-record decoder (WetEntry).      *)
(* Bytes are integers 0..255, byte strings and decoded text are sequences  *)
(* of integers (byte values, resp. code points).  Python offsets are       *)
(* 0-based and are kept 0-based here; Take/Drop give Python's s[:k], s[k:].*)
(***************************************************************************)
EXTENDS Integers, Sequences, FiniteSets, TLC

\* ------------------------------------------------------------------ bounds
\* records per input stream
MaxRecords == 2
\* parse invocations on the one Parser instance
MaxRuns == 2
\* bytes per input stream
MaxStreamLen == 50

\* ------------------------------------------------------- bytes and slices
CR == 13
LF == 10
COLON == 58

LINE_DELIMITER == <<CR, LF>>

\* b'WARC/1.0'
WARC_VERSION == <<87, 65, 82, 67, 47, 49, 46, 48>>

BLOCK_DELIMITER == LINE_DELIMITER \o LINE_DELIMITER \o WARC_VERSION \o LINE_DELIMITER

MinOf(a, b) == IF a < b THEN a ELSE b

\* Python s[:k] for k >= 0
Take(s, k) == SubSeq(s, 1, MinOf(k, Len(s)))

\* Python s[k:] for k >= 0
Drop(s, k) == SubSeq(s, MinOf(k, Len(s)) + 1, Len(s))

\* the offsets at which pat occurs in s
Occurrences(s, pat) ==
    {i \in 0..(Len(s) - Len(pat)) : SubSeq(s, i + 1, i + Len(pat)) = pat}

\* a plausible slip: the last occurrence instead of the first
FindLast(s, pat) ==
    LET occ == Occurrences(s, pat)
    IN  IF occ = {} THEN -1 ELSE CHOOSE i \in occ : \A j \in occ : j <= i

\* bytes.find / str.find: offset of the first occurrence, -1 if none
Find(s, pat) ==
    LET occ == Occurrences(s, pat)
    IN  IF occ = {} THEN -1 ELSE CHOOSE i \in occ : \A j \in occ : i <= j

\* bytes.split(sep) / str.split(sep) with an explicit separator
RECURSIVE Split(_, _)
Split(s, sep) ==
    LET i == Find(s, sep)
    IN  IF i = -1 THEN <<s>>
        ELSE <<Take(s, i)>> \o Split(Drop(s, i + Len(sep)), sep)

\* sep.join(parts)
RECURSIVE Join(_, _)
Join(parts, sep) ==
    IF Len(parts) = 0 THEN <<>>
    ELSE IF Len(parts) = 1 THEN parts[1]
    ELSE parts[1] \o sep \o Join(Tail(parts), sep)

\* str.isspace for the code points below 256
IsSpace(c) == c \in {9, 10, 11, 12, 13, 28, 29, 30, 31, 32, 133, 160}

RECURSIVE LStrip(_)
LStrip(t) == IF Len(t) > 0 /\ IsSpace(t[1]) THEN LStrip(Tail(t)) ELSE t

RECURSIVE RStrip(_)
RStrip(t) ==
    IF Len(t) > 0 /\ IsSpace(t[Len(t)]) THEN RStrip(SubSeq(t, 1, Len(t) - 1)) ELSE t

\* e.lstrip().rstrip()
Strip(t) == RStrip(LStrip(t))

\* a plausible slip: the key is not folded
KeepCase(c) == c

\* str.lower for the code points below 256
LowerChar(c) ==
    IF c \in 65..90 \/ (c \in 192..222 /\ c # 215) THEN c + 32 ELSE c

Lower(t) == [i \in 1..Len(t) |-> LowerChar(t[i])]

\* bytes.decode() with the default codec (UTF-8, strict), for one- and
\* two-byte sequences; any other byte raises UnicodeDecodeError (ok = FALSE)
RECURSIVE Utf8Decode(_)
Utf8Decode(b) ==
    IF Len(b) = 0 THEN [ok |-> TRUE, text |-> <<>>]
    ELSE IF b[1] < 128
         THEN LET r == Utf8Decode(Tail(b))
              IN  [ok |-> r.ok, text |-> <<b[1]>> \o r.text]
    ELSE IF b[1] \in 194..223 /\ Len(b) >= 2 /\ b[2] \in 128..191
         THEN LET r == Utf8Decode(Drop(b, 2))
              IN  [ok |-> r.ok, text |-> <<(b[1] - 192) * 64 + (b[2] - 128)>> \o r.text]
    ELSE [ok |-> FALSE, text |-> <<>>]

\* ------------------------------------------------------------ WetEntry
\* header_dict = {}
EmptyDict == [k \in {} |-> <<>>]

\* a plausible slip: a repeated key overwrites the earlier value
DictOverwrite(d, key, value) ==
    [k \in (DOMAIN d) \cup {key} |-> IF k = key THEN <<value>> ELSE d[k]]

\* if key not in header_dict: header_dict[key] = []
\* header_dict[key].append(value)
DictAppend(d, key, value) ==
    IF key \in DOMAIN d
    THEN [d EXCEPT ![key] = Append(@, value)]
    ELSE [k \in (DOMAIN d) \cup {key} |-> IF k = key THEN <<value>> ELSE d[k]]

\* the kv list of one decoded, non-empty header line
KeyValue(l) ==
    LET parts == Split(l, <<COLON>>)
        kv    == [i \in 1..Len(parts) |-> Strip(parts[i])]
    IN  IF Len(kv) = 1 THEN <<kv[1], <<>>>>
        ELSE IF Len(kv) > 2 THEN <<kv[1], Join(Tail(kv), <<COLON>>)>>
        ELSE kv

\* the loop body of _parse_header over the remaining lines; ok = FALSE when
\* l.decode() raises UnicodeDecodeError
RECURSIVE ParseLines(_, _, _)
ParseLines(lines, header_dict, headerkey_case_sensitive) ==
    IF Len(lines) = 0 THEN [ok |-> TRUE, dict |-> header_dict]
    ELSE LET l == Utf8Decode(lines[1])
         IN  IF ~l.ok THEN [ok |-> FALSE, dict |-> EmptyDict]
             ELSE IF Len(l.text) = 0
                  THEN ParseLines(Tail(lines), header_dict, headerkey_case_sensitive)
             ELSE LET kv    == KeyValue(l.text)
                      key   == IF headerkey_case_sensitive THEN kv[1] ELSE Lower(kv[1])
                      value == kv[2]
                  IN  ParseLines(Tail(lines), DictAppend(header_dict, key, value),
                                 headerkey_case_sensitive)

_parse_header(header_block, headerkey_case_sensitive) ==
    ParseLines(Split(header_block, LINE_DELIMITER), EmptyDict, headerkey_case_sensitive)

\* detector confidence is kept in hundredths: 0.5 is 50
CONFIDENCE_THRESHOLD == 50

\* the results chardet.detect may return (the detector is an oracle)
Detections ==
    {[encoding |-> "ascii", confidence |-> 49],
     [encoding |-> "utf-8", confidence |-> 50]}

\* a plausible slip: <= in place of <
LowConfidenceInclusive(detection) == detection.confidence <= CONFIDENCE_THRESHOLD

\* detection['confidence'] < 0.5
LowConfidence(detection) == detection.confidence < CONFIDENCE_THRESHOLD

\* the text body_block.decode(encoding) returns, kept as the pair it is made of
Decoded(body_block, encoding) == <<encoding, body_block>>

NoBody == <<>>

\* _parse_body; decodable says whether body_block.decode(encoding) succeeds.
\* detect_calls / decode_calls count the calls made to chardet.detect and
\* to body_block.decode
_parse_body(body_block, detection, decodable) ==
    IF LowConfidence(detection)
    THEN [kind |-> "EncodingDetectionError", body |-> NoBody, encoding |-> "unset",
          detect_calls |-> 1, decode_calls |-> 0]
    ELSE IF decodable
    THEN [kind |-> "Entry", body |-> Decoded(body_block, detection.encoding),
          encoding |-> detection.encoding, detect_calls |-> 1, decode_calls |-> 1]
    ELSE [kind |-> "DecodingFailureError", body |-> NoBody,
          encoding |-> detection.encoding, detect_calls |-> 1, decode_calls |-> 1]

\* a plausible slip: without a blank line the whole block is the header
HeaderTailIndexWhole(block) ==
    IF Find(block, LINE_DELIMITER \o LINE_DELIMITER) = -1
    THEN Len(block)
    ELSE Find(block, LINE_DELIMITER \o LINE_DELIMITER) + Len(LINE_DELIMITER)

\* a plausible slip: the last blank line instead of the first
HeaderTailIndexLast(block) ==
    FindLast(block, LINE_DELIMITER \o LINE_DELIMITER) + Len(LINE_DELIMITER)

\* block.find(2*LINE_DELIMITER) + len(LINE_DELIMITER)
HeaderTailIndex(block) ==
    Find(block, LINE_DELIMITER \o LINE_DELIMITER) + Len(LINE_DELIMITER)

BodyHeadIndex(block) == HeaderTailIndex(block) + Len(LINE_DELIMITER)

\* WetEntry(block, headerkey_case_sensitive): the entry, or the exception the
\* constructor raises (kind), with what the detector said (detected,
\* confidence) and whether the attempted decode succeeded (decodable)
WetEntry(block, headerkey_case_sensitive, detection, decodable) ==
    LET header_block == Take(block, HeaderTailIndex(block))
        body_block   == Drop(block, BodyHeadIndex(block))
        h == _parse_header(header_block, headerkey_case_sensitive)
        b == _parse_body(body_block, detection, decodable)
    IN  IF ~h.ok
        THEN [block |-> block, kind |-> "UnicodeDecodeError", header |-> EmptyDict,
              header_block |-> header_block, body_block |-> body_block,
              body |-> NoBody, encoding |-> "unset", detected |-> "unset",
              confidence |-> -1, decodable |-> FALSE,
              detect_calls |-> 0, decode_calls |-> 0]
        ELSE [block |-> block, kind |-> b.kind, header |-> h.dict,
              header_block |-> header_block, body_block |-> body_block,
              body |-> b.body, encoding |-> b.encoding,
              detected |-> detection.encoding,
              confidence |-> detection.confidence,
              decodable |-> (decodable /\ b.decode_calls = 1),
              detect_calls |-> b.detect_calls, decode_calls |-> b.decode_calls]

\* ------------------------------------------------------------- inputs
\* the records the input streams are built from; none contains BLOCK_DELIMITER
RecordSet ==
    { \* K:v CRLF k:w CRLF K:x CRLF CRLF b
      <<75, 58, 118, 13, 10, 107, 58, 119, 13, 10, 75, 58, 120, 13, 10, 13, 10, 98>>,
      \* K: a: b CRLF CRLF b CRLF CRLF c
      <<75, 58, 32, 97, 58, 32, 98, 13, 10, 13, 10, 98, 13, 10, 13, 10, 99>>,
      \* 0xFF CRLF CRLF b  (a header line that is not UTF-8)
      <<255, 13, 10, 13, 10, 98>>,
      \* b  (no blank line)
      <<98>>,
      \* the empty record
      <<>>,
      \* CRLF WARC/1.0 CRLF  (completes a second marker after a marker)
      LINE_DELIMITER \o WARC_VERSION \o LINE_DELIMITER }

\* record_1 + MARKER + record_2 + MARKER + ... + record_n
Stream(records) == Join(records, BLOCK_DELIMITER)

RecordLists ==
    {records \in UNION {[1..n -> RecordSet] : n \in 1..MaxRecords} :
        Len(Stream(records)) <= MaxStreamLen}

\* the values of buffering_size the reads are modelled with; the source fixes
\* 4096, which reads every modelled stream in one chunk
BUFFERING_SIZE == 4096

ChunkSizes == {1, 7, BUFFERING_SIZE}

\* the streams and chunk sizes used when two iterations are interleaved
PairRecordSet == {<<>>, <<255, 13, 10, 13, 10, 98>>}

PairRecordLists ==
    {records \in UNION {[1..n -> PairRecordSet] : n \in 1..MaxRecords} :
        Len(Stream(records)) <= MaxStreamLen}

PairChunkSizes == {BUFFERING_SIZE}

\* --------------------------------------------------------------- state
GenIds == {1, 2}

VARIABLES
    loaded_counter,   \* Parser._loaded_counter
    skip_counter,     \* Parser._skip_counter
    gen,              \* the generator objects parse() returned, by slot
    running,          \* the generator whose frame is executing, 0: the consumer
    runs              \* number of parse() calls made so far

vars == <<loaded_counter, skip_counter, gen, running, runs>>

Unopened == [state |-> "unopened", opens |-> 0, closes |-> 0, reads |-> 0, late_reads |-> 0]

NoGen ==
    [pc |-> "none", records |-> <<>>, input |-> <<>>, pos |-> 0, size |-> 0,
     cs |-> TRUE, buf |-> <<>>, index |-> -1, f |-> Unopened, log |-> <<>>,
     out |-> <<>>, stale |-> FALSE, report |-> [raised |-> "none", ratio |-> 0]]

\* the generator object parse(filename, headerkey_case_sensitive) returns;
\* no line of the body has run yet, so the counters keep what the last run
\* left (stale: they are not both zero)
NewGen(records, size, cs, lc, sc) ==
    [NoGen EXCEPT !.pc = "created", !.records = records, !.input = Stream(records),
                  !.size = size, !.cs = cs, !.stale = (lc + sc > 0)]

Ended == {"done", "raised", "closed"}

Suspended == {"created", "yield_loop", "yield_flush"}

\* gzip.open(filename, 'rb')
OpenFile(f) == [f EXCEPT !.state = "open", !.opens = @ + 1]

\* a plausible slip: the stream is not released when the block is left
LeakFile(f) == f

\* leaving the with block, on any path
CloseFile(f) == [f EXCEPT !.state = "closed", !.closes = @ + 1]

\* f.read(buffering_size) on the stream
ReadFile(f) ==
    [f EXCEPT !.reads = @ + 1,
              !.late_reads = IF f.state = "open" THEN @ ELSE @ + 1]

\* a plausible slip: the buffer is replaced by the chunk
ReplaceBuffer(buf, chunk) == chunk

\* buf += chunk
Accumulate(buf, chunk) == buf \o chunk

\* buf[:index+len(LINE_DELIMITER)]
RawRecord(buf, index) == Take(buf, index + Len(LINE_DELIMITER))

\* a plausible slip: the buffer is not advanced
CutNothing(buf, index) == buf

\* a plausible slip: only the delimiter kept in the record is dropped
CutRecordOnly(buf, index) == Drop(buf, index + Len(LINE_DELIMITER))

\* a plausible slip: the whole marker is dropped
CutWholeMarker(buf, index) == Drop(buf, index + Len(BLOCK_DELIMITER))

\* buf[index+(2*len(LINE_DELIMITER)):]
Cut(buf, index) == Drop(buf, index + 2 * Len(LINE_DELIMITER))

\* a plausible slip: every exception is treated as a skip
CatchAll(kind) == kind # "Entry"

\* except (EncodingDetectionError, DecodingFailureError)
Classified(kind) == kind \in {"EncodingDetectionError", "DecodingFailureError"}

\* a plausible slip: the counters are not reset
KeepCounter(old) == old

\* self._loaded_counter = 0 ; self._skip_counter = 0
ResetCounter(old) == 0

\* a plausible slip: a skipped record is not counted
SameCounter(c) == c

\* self._skip_counter += 1
CountSkip(c) == c + 1

\* a plausible slip: a yielded entry is not counted
Uncounted(c) == c

\* self._loaded_counter += 1
CountLoaded(c) == c + 1

Init ==
    /\ loaded_counter = 0
    /\ skip_counter = 0
    /\ gen = [g \in GenIds |-> NoGen]
    /\ running = 0
    /\ runs = 0

\* -------------------------------------------------------------- actions
\* a plausible slip: the counters are reset by the call itself
CallEager(g, lists, sizes) ==
    /\ running = 0
    /\ runs < MaxRuns
    /\ gen[g].pc = "none"
    /\ \E records \in lists, size \in sizes, cs \in BOOLEAN :
          gen' = [gen EXCEPT ![g] = NewGen(records, size, cs, loaded_counter, skip_counter)]
    /\ runs' = runs + 1
    /\ loaded_counter' = 0
    /\ skip_counter' = 0
    /\ UNCHANGED running

\* the consumer calls parser.parse(filename, headerkey_case_sensitive); slot g
\* holds the new generator
Call(g, lists, sizes) ==
    /\ running = 0
    /\ runs < MaxRuns
    /\ gen[g].pc = "none"
    /\ \E records \in lists, size \in sizes, cs \in BOOLEAN :
          gen' = [gen EXCEPT ![g] = NewGen(records, size, cs, loaded_counter, skip_counter)]
    /\ runs' = runs + 1
    /\ UNCHANGED <<loaded_counter, skip_counter, running>>

\* first next(): the body runs from its first line up to the first read
Start(g) ==
    /\ running = 0
    /\ gen[g].pc = "created"
    /\ loaded_counter' = ResetCounter(loaded_counter)
    /\ skip_counter' = ResetCounter(skip_counter)
    /\ gen' = [gen EXCEPT ![g].pc = "read", ![g].f = OpenFile(@), ![g].buf = <<>>]
    /\ running' = g
    /\ UNCHANGED runs

\* the chunk f.read(buffering_size) returns at position pos
NextChunk(G) == SubSeq(G.input, G.pos + 1, MinOf(G.pos + G.size, Len(G.input)))

\* for chunk in iter(lambda : f.read(buffering_size), b''): buf += chunk
ReadChunk(g) ==
    /\ running = g
    /\ gen[g].pc = "read"
    /\ NextChunk(gen[g]) # <<>>
    /\ gen' = [gen EXCEPT ![g].buf = Accumulate(@, NextChunk(gen[g])),
                          ![g].pos = @ + Len(NextChunk(gen[g])),
                          ![g].f = ReadFile(@),
                          ![g].pc = "scan"]
    /\ UNCHANGED <<loaded_counter, skip_counter, running, runs>>

\* the read returns b'': the for loop ends and the with block is left
ReadEnd(g) ==
    /\ running = g
    /\ gen[g].pc = "read"
    /\ NextChunk(gen[g]) = <<>>
    /\ gen' = [gen EXCEPT ![g].f = CloseFile(ReadFile(@)), ![g].pc = "flush"]
    /\ UNCHANGED <<loaded_counter, skip_counter, running, runs>>

\* a plausible slip: the next chunk is read while a delimiter is in the buffer
ScanMissEager(g) ==
    /\ running = g
    /\ gen[g].pc = "scan"
    /\ gen' = [gen EXCEPT ![g].pc = "read"]
    /\ UNCHANGED <<loaded_counter, skip_counter, running, runs>>

\* index == -1: need_next_read
ScanMiss(g) ==
    /\ running = g
    /\ gen[g].pc = "scan"
    /\ Find(gen[g].buf, BLOCK_DELIMITER) = -1
    /\ gen' = [gen EXCEPT ![g].pc = "read"]
    /\ UNCHANGED <<loaded_counter, skip_counter, running, runs>>

\* the delimiter is found and WetEntry(...) returns: yield entry
ScanEntry(g) ==
    /\ running = g
    /\ gen[g].pc = "scan"
    /\ LET index == Find(gen[g].buf, BLOCK_DELIMITER)
       IN  /\ index # -1
           /\ \E detection \in Detections, decodable \in BOOLEAN :
                 LET e == WetEntry(RawRecord(gen[g].buf, index), gen[g].cs,
                                   detection, decodable)
                 IN  /\ e.kind = "Entry"
                     /\ gen' = [gen EXCEPT ![g].log = Append(@, e),
                                           ![g].out = Append(@, e),
                                           ![g].index = index,
                                           ![g].pc = "yield_loop"]
    /\ running' = 0
    /\ UNCHANGED <<loaded_counter, skip_counter, runs>>

\* the delimiter is found and WetEntry(...) raises a classified error
ScanSkip(g) ==
    /\ running = g
    /\ gen[g].pc = "scan"
    /\ LET index == Find(gen[g].buf, BLOCK_DELIMITER)
       IN  /\ index # -1
           /\ \E detection \in Detections, decodable \in BOOLEAN :
                 LET e == WetEntry(RawRecord(gen[g].buf, index), gen[g].cs,
                                   detection, decodable)
                 IN  /\ Classified(e.kind)
                     /\ gen' = [gen EXCEPT ![g].log = Append(@, e),
                                           ![g].buf = Cut(@, index)]
    /\ skip_counter' = CountSkip(skip_counter)
    /\ UNCHANGED <<loaded_counter, running, runs>>

\* the delimiter is found and WetEntry(...) raises any other exception: the
\* finally clause cuts, the with block is left, the exception reaches the consumer
ScanRaise(g) ==
    /\ running = g
    /\ gen[g].pc = "scan"
    /\ LET index == Find(gen[g].buf, BLOCK_DELIMITER)
       IN  /\ index # -1
           /\ \E detection \in Detections, decodable \in BOOLEAN :
                 LET e == WetEntry(RawRecord(gen[g].buf, index), gen[g].cs,
                                   detection, decodable)
                 IN  /\ e.kind # "Entry"
                     /\ ~Classified(e.kind)
                     /\ gen' = [gen EXCEPT ![g].log = Append(@, e),
                                           ![g].buf = Cut(@, index),
                                           ![g].f = CloseFile(@),
                                           ![g].pc = "raised"]
    /\ running' = 0
    /\ UNCHANGED <<loaded_counter, skip_counter, runs>>

\* next() on a generator suspended at the yield in the loop
Resume(g) ==
    /\ running = 0
    /\ gen[g].pc = "yield_loop"
    /\ loaded_counter' = CountLoaded(loaded_counter)
    /\ gen' = [gen EXCEPT ![g].buf = Cut(@, gen[g].index),
                          ![g].index = -1,
                          ![g].pc = "scan"]
    /\ running' = g
    /\ UNCHANGED <<skip_counter, runs>>

\* the consumer abandons the iteration: close() raises GeneratorExit at the
\* point of suspension (nothing runs when the body never started)
Close(g) ==
    /\ running = 0
    /\ gen[g].pc \in Suspended
    /\ gen' = [gen EXCEPT ![g] =
                 IF @.pc = "yield_loop"
                 THEN [@ EXCEPT !.buf = Cut(@, gen[g].index), !.index = -1,
                                !.f = CloseFile(@), !.pc = "closed"]
                 ELSE IF @.pc = "yield_flush"
                 THEN [@ EXCEPT !.buf = <<>>, !.pc = "closed"]
                 ELSE [@ EXCEPT !.pc = "closed"]]
    /\ UNCHANGED <<loaded_counter, skip_counter, running, runs>>

\* if len(buf) > 0 is false: the generator returns
FlushEmpty(g) ==
    /\ running = g
    /\ gen[g].pc = "flush"
    /\ Len(gen[g].buf) = 0
    /\ gen' = [gen EXCEPT ![g].pc = "done"]
    /\ running' = 0
    /\ UNCHANGED <<loaded_counter, skip_counter, runs>>

\* the remaining buffer is the last record and WetEntry(buf) returns
FlushEntry(g) ==
    /\ running = g
    /\ gen[g].pc = "flush"
    /\ Len(gen[g].buf) > 0
    /\ \E detection \in Detections, decodable \in BOOLEAN :
          LET e == WetEntry(gen[g].buf, gen[g].cs, detection, decodable)
          IN  /\ e.kind = "Entry"
              /\ gen' = [gen EXCEPT ![g].log = Append(@, e),
                                    ![g].out = Append(@, e),
                                    ![g].pc = "yield_flush"]
    /\ running' = 0
    /\ UNCHANGED <<loaded_counter, skip_counter, runs>>

\* WetEntry(buf) raises a classified error on the last record
FlushSkip(g) ==
    /\ running = g
    /\ gen[g].pc = "flush"
    /\ Len(gen[g].buf) > 0
    /\ \E detection \in Detections, decodable \in BOOLEAN :
          LET e == WetEntry(gen[g].buf, gen[g].cs, detection, decodable)
          IN  /\ Classified(e.kind)
              /\ gen' = [gen EXCEPT ![g].log = Append(@, e),
                                    ![g].buf = <<>>,
                                    ![g].pc = "done"]
    /\ skip_counter' = CountSkip(skip_counter)
    /\ running' = 0
    /\ UNCHANGED <<loaded_counter, runs>>

\* WetEntry(buf) raises any other exception on the last record
FlushRaise(g) ==
    /\ running = g
    /\ gen[g].pc = "flush"
    /\ Len(gen[g].buf) > 0
    /\ \E detection \in Detections, decodable \in BOOLEAN :
          LET e == WetEntry(gen[g].buf, gen[g].cs, detection, decodable)
          IN  /\ e.kind # "Entry"
              /\ ~Classified(e.kind)
              /\ gen' = [gen EXCEPT ![g].log = Append(@, e),
                                    ![g].buf = <<>>,
                                    ![g].pc = "raised"]
    /\ running' = 0
    /\ UNCHANGED <<loaded_counter, skip_counter, runs>>

\* next() on a generator suspended at the last yield: count, clear, return
ResumeFlush(g) ==
    /\ running = 0
    /\ gen[g].pc = "yield_flush"
    /\ loaded_counter' = CountLoaded(loaded_counter)
    /\ gen' = [gen EXCEPT ![g].buf = <<>>, ![g].pc = "done"]
    /\ UNCHANGED <<skip_counter, running, runs>>

\* float(skip_counter)/(loaded_counter+skip_counter), in hundredths; the
\* division raises ZeroDivisionError when the divisor is 0
SkipRatio(lc, sc) ==
    IF lc + sc = 0
    THEN [raised |-> "ZeroDivisionError", ratio |-> 0]
    ELSE [raised |-> "none", ratio |-> (100 * sc) \div (lc + sc)]

\* the driver's for loop is over: the end-of-run report is formatted
Report(g) ==
    /\ running = 0
    /\ gen[g].pc = "done"
    /\ gen' = [gen EXCEPT ![g].pc = "reported",
                          ![g].report = SkipRatio(loaded_counter, skip_counter)]
    /\ UNCHANGED <<loaded_counter, skip_counter, running, runs>>

\* the consumer drops its reference to a generator that has ended
Release(g) ==
    /\ running = 0
    /\ gen[g].pc \in Ended \cup {"reported"}
    /\ gen' = [gen EXCEPT ![g] = NoGen]
    /\ UNCHANGED <<loaded_counter, skip_counter, running, runs>>

\* one consumer, one iteration at a time
Next ==
    \/ Call(1, RecordLists, ChunkSizes)
    \/ Start(1)
    \/ ReadChunk(1)
    \/ ReadEnd(1)
    \/ ScanMiss(1)
    \/ ScanEntry(1)
    \/ ScanSkip(1)
    \/ ScanRaise(1)
    \/ Resume(1)
    \/ Close(1)
    \/ FlushEmpty(1)
    \/ FlushEntry(1)
    \/ FlushSkip(1)
    \/ FlushRaise(1)
    \/ ResumeFlush(1)
    \/ Release(1)
    \/ Report(1)

Spec == Init /\ [][Next]_vars

\* one consumer pulling two iterations of the same Parser in any order
NextPair ==
    \/ \E g \in GenIds : Call(g, PairRecordLists, PairChunkSizes)
    \/ \E g \in GenIds : Start(g)
    \/ \E g \in GenIds : ReadChunk(g)
    \/ \E g \in GenIds : ReadEnd(g)
    \/ \E g \in GenIds : ScanMiss(g)
    \/ \E g \in GenIds : ScanEntry(g)
    \/ \E g \in GenIds : ScanSkip(g)
    \/ \E g \in GenIds : ScanRaise(g)
    \/ \E g \in GenIds : Resume(g)
    \/ \E g \in GenIds : Close(g)
    \/ \E g \in GenIds : FlushEmpty(g)
    \/ \E g \in GenIds : FlushEntry(g)
    \/ \E g \in GenIds : FlushSkip(g)
    \/ \E g \in GenIds : FlushRaise(g)
    \/ \E g \in GenIds : ResumeFlush(g)
    \/ \E g \in GenIds : Release(g)
    \/ \E g \in GenIds : Report(g)

SpecPair == Init /\ [][NextPair]_vars

\* ------------------------------------------------- what the claims speak of
\* the raw records one pass over the whole input cuts (the stream read in a
\* single chunk): the cuts of the scan loop, then the final flush
RECURSIVE RawRecords(_)
RawRecords(buf) ==
    LET index == Find(buf, BLOCK_DELIMITER)
    IN  IF index = -1
        THEN IF Len(buf) > 0 THEN <<buf>> ELSE <<>>
        ELSE <<Take(buf, index + Len(LINE_DELIMITER))>>
                 \o RawRecords(Drop(buf, index + 2 * Len(LINE_DELIMITER)))

\* the raw slices handed to WetEntry so far, in order
Blocks(G) == [i \in 1..Len(G.log) |-> G.log[i].block]

IsPrefix(s, t) == Len(s) <= Len(t) /\ SubSeq(t, 1, Len(s)) = s

NumSkipped(G) ==
    Cardinality({i \in 1..Len(G.log) :
                    G.log[i].kind \in {"EncodingDetectionError", "DecodingFailureError"}})

IsEntry(e) == e.kind = "Entry"

Live == {g \in GenIds : gen[g].pc # "none"}

\* the marker occurs in the stream at the n-1 joins and nowhere else
MarkerOnlyAtJoins(records) ==
    Cardinality(Occurrences(Stream(records), BLOCK_DELIMITER)) = Len(records) - 1

\* record_i as the cut leaves it: the version line of the marker in front of
\* every record but the first, one line delimiter behind every record but the last
ExpectedSlices(records) ==
    [i \in 1..Len(records) |->
        (IF i > 1 THEN WARC_VERSION \o LINE_DELIMITER ELSE <<>>)
        \o records[i]
        \o (IF i < Len(records) THEN LINE_DELIMITER ELSE <<>>)]

\* C1 as stated: a parse consumed to exhaustion hands the decoder exactly n
\* slices and the i-th is record_i, with or without the trailing line
\* delimiter kept by the cut
C1_SlicesAreRecords ==
    \A g \in Live :
        gen[g].pc = "done" =>
            /\ Len(gen[g].log) = Len(gen[g].records)
            /\ \A i \in 1..Len(gen[g].log) :
                  \/ gen[g].log[i].block = gen[g].records[i]
                  \/ gen[g].log[i].block = gen[g].records[i] \o LINE_DELIMITER

\* C1 amended: for a non-empty stream in which the marker occurs only at the
\* joins, a parse consumed to exhaustion hands the decoder exactly n slices in
\* stream order; the first is record_1, every later one is WARC/1.0 CR LF
\* followed by record_i, and every slice but the last also ends with the one
\* line delimiter kept by the cut
C1_SlicesKeepVersionLine ==
    \A g \in Live :
        (/\ gen[g].pc = "done"
         /\ Len(gen[g].input) > 0
         /\ MarkerOnlyAtJoins(gen[g].records))
        => Blocks(gen[g]) = ExpectedSlices(gen[g].records)

C1_Witness ==
    \E g \in Live :
        /\ gen[g].pc = "done"
        /\ Len(gen[g].records) = 2
        /\ Len(gen[g].records[1]) > 0
        /\ Len(gen[g].records[2]) > 0
        /\ MarkerOnlyAtJoins(gen[g].records)
        /\ Len(gen[g].log) = 2

\* C2: whatever the chunk size, the raw records cut so far are a prefix of
\* the records the whole input read at once is cut into, and at exhaustion
\* they are exactly those: a delimiter straddling chunk boundaries is
\* neither missed nor cut twice
C2_ChunkInvariant ==
    \A g \in Live :
        /\ IsPrefix(Blocks(gen[g]), RawRecords(gen[g].input))
        /\ gen[g].pc = "done" => Blocks(gen[g]) = RawRecords(gen[g].input)

C2_Witness ==
    \E g \in Live :
        /\ gen[g].pc = "done"
        /\ gen[g].size = 7
        /\ Len(gen[g].log) = 3
        /\ gen[g].f.reads > 3

\* C3: at exhaustion the yielded entries are the non-failing records in
\* stream order, loaded_counter is their number, skip_counter the number of
\* records that failed with a classified error, and every record of the
\* stream was attempted
C3_SkipAndContinue ==
    \A g \in Live :
        gen[g].pc = "done" =>
            /\ gen[g].out = SelectSeq(gen[g].log, IsEntry)
            /\ loaded_counter = Len(gen[g].out)
            /\ skip_counter = NumSkipped(gen[g])
            /\ loaded_counter + skip_counter = Len(RawRecords(gen[g].input))
            /\ Blocks(gen[g]) = RawRecords(gen[g].input)

C3_Witness ==
    \E g \in Live :
        /\ gen[g].pc = "done"
        /\ Len(gen[g].log) = 3
        /\ gen[g].log[1].kind = "Entry"
        /\ gen[g].log[2].kind = "DecodingFailureError"
        /\ gen[g].log[3].kind = "Entry"
        /\ loaded_counter = 2
        /\ skip_counter = 1

\* C4: a record whose body reaches the detector ends in exactly one of three
\* outcomes: EncodingDetectionError without a decode attempt iff confidence
\* is below 0.5, an Entry carrying the detected encoding iff confidence is at
\* least 0.5 and the decode succeeds, DecodingFailureError iff confidence is
\* at least 0.5 and the decode fails; one detection, at most one decode
C4_ThreeOutcomes ==
    \A g \in Live : \A i \in 1..Len(gen[g].log) :
        LET e == gen[g].log[i]
        IN  e.kind # "UnicodeDecodeError" =>
              /\ e.kind \in {"EncodingDetectionError", "Entry", "DecodingFailureError"}
              /\ (e.kind = "EncodingDetectionError") <=> (e.confidence < 50)
              /\ (e.kind = "EncodingDetectionError") => (e.decode_calls = 0)
              /\ (e.kind = "Entry") <=> (e.confidence >= 50 /\ e.decodable)
              /\ (e.kind = "Entry") =>
                     (e.encoding = e.detected /\ e.body = <<e.detected, e.body_block>>)
              /\ (e.kind = "DecodingFailureError") <=>
                     (e.confidence >= 50 /\ ~e.decodable)
              /\ e.detect_calls = 1
              /\ e.decode_calls <= 1

C4_Witness ==
    \E g \in Live : \E i, j, k \in 1..Len(gen[g].log) :
        /\ gen[g].log[i].kind = "EncodingDetectionError"
        /\ gen[g].log[i].confidence = 49
        /\ gen[g].log[j].kind = "Entry"
        /\ gen[g].log[j].confidence = 50
        /\ gen[g].log[k].kind = "DecodingFailureError"
        /\ gen[g].log[k].confidence = 50

\* C5: a record that fails with an unclassified error is the last one
\* attempted: the error leaves parse, no later record is attempted or
\* yielded, and no counter is incremented for it
C5_UnclassifiedAborts ==
    \A g \in Live : \A i \in 1..Len(gen[g].log) :
        gen[g].log[i].kind = "UnicodeDecodeError" =>
            /\ i = Len(gen[g].log)
            /\ gen[g].pc = "raised"
            /\ loaded_counter + skip_counter = Len(gen[g].log) - 1
            /\ Len(gen[g].out) = loaded_counter

C5_Witness ==
    \E g \in Live :
        /\ gen[g].pc = "raised"
        /\ gen[g].log[Len(gen[g].log)].kind = "UnicodeDecodeError"
        /\ Len(RawRecords(gen[g].input)) > Len(gen[g].log)

\* C6: the stream is closed at most once and never read unless open, and
\* however the run ended (exhausted, error raised, abandoned) a stream that
\* was opened has been closed exactly once
C6_ClosedExactlyOnce ==
    \A g \in Live :
        /\ gen[g].f.closes <= 1
        /\ gen[g].f.late_reads = 0
        /\ gen[g].pc \in Ended =>
              /\ gen[g].f.closes = gen[g].f.opens
              /\ gen[g].f.opens = 1 => gen[g].f.state = "closed"

C6_Witness ==
    \E g \in Live :
        /\ gen[g].pc = "closed"
        /\ gen[g].f.opens = 1
        /\ gen[g].f.closes = 1
        /\ gen[g].pos < Len(gen[g].input)

\* C7: after a later run on the same Parser is exhausted, the counters are
\* that run's own loaded and skipped counts, not sums over the runs
C7_CountersPerRun ==
    \A g \in Live :
        (gen[g].pc = "done" /\ runs >= 2) =>
            /\ loaded_counter = Len(SelectSeq(gen[g].log, IsEntry))
            /\ skip_counter = NumSkipped(gen[g])

C7_Witness ==
    \E g \in Live :
        /\ gen[g].pc = "done"
        /\ runs = 2
        /\ gen[g].stale
        /\ loaded_counter = 1
        /\ skip_counter = 1

\* C8 as stated: while an iteration is in progress (suspended at a yield),
\* the counters it is observed through are never changed or reset by a step
\* of the other iteration
C8_NoInterference ==
    [][\A g \in GenIds :
          (gen[g].pc \in {"yield_loop", "yield_flush"} /\ gen'[g] = gen[g])
          => (loaded_counter' = loaded_counter /\ skip_counter' = skip_counter)]_vars

\* the first double line delimiter of a block, located without find
FirstBlankLine(block) ==
    CHOOSE i \in 0..Len(block) :
        /\ SubSeq(block, i + 1, i + 4) = LINE_DELIMITER \o LINE_DELIMITER
        /\ \A j \in 0..(i - 1) :
              SubSeq(block, j + 1, j + 4) # LINE_DELIMITER \o LINE_DELIMITER

HasBlankLine(block) ==
    \E i \in 0..(Len(block) - 4) :
        SubSeq(block, i + 1, i + 4) = LINE_DELIMITER \o LINE_DELIMITER

\* C9: a record holding two consecutive line delimiters is split at the
\* first such place: the header block is all before it plus the first
\* delimiter, the body block all after the second, later ones stay in the body
C9_SplitAtFirstBlankLine ==
    \A g \in Live : \A i \in 1..Len(gen[g].log) :
        LET e == gen[g].log[i]
        IN  HasBlankLine(e.block) =>
              /\ e.header_block = Take(e.block, FirstBlankLine(e.block) + 2)
              /\ e.body_block = Drop(e.block, FirstBlankLine(e.block) + 4)
              /\ e.header_block \o LINE_DELIMITER \o e.body_block = e.block

C9_Witness ==
    \E g \in Live : \E i \in 1..Len(gen[g].log) :
        /\ gen[g].log[i].kind = "Entry"
        /\ HasBlankLine(gen[g].log[i].body_block)
        /\ ~HasBlankLine(gen[g].log[i].header_block)

\* the text before / after the first colon of a line, trimmed
KeyOfLine(t) ==
    IF \E i \in 1..Len(t) : t[i] = COLON
    THEN Strip(SubSeq(t, 1, (CHOOSE i \in 1..Len(t) :
                   t[i] = COLON /\ \A j \in 1..(i - 1) : t[j] # COLON) - 1))
    ELSE Strip(t)

ValueOfLine(t) ==
    IF \E i \in 1..Len(t) : t[i] = COLON
    THEN Strip(SubSeq(t, (CHOOSE i \in 1..Len(t) :
                   t[i] = COLON /\ \A j \in 1..(i - 1) : t[j] # COLON) + 1, Len(t)))
    ELSE <<>>

\* C10 as stated: every non-empty header line gives, under the trimmed text
\* before its first colon, the trimmed text after it with its interior as
\* written (the empty text when the line has no colon)
C10_FirstColonSplits ==
    \A g \in Live : \A i \in 1..Len(gen[g].log) :
        LET e     == gen[g].log[i]
            lines == Split(e.header_block, LINE_DELIMITER)
        IN  e.kind # "UnicodeDecodeError" =>
              \A n \in 1..Len(lines) :
                  LET t   == Utf8Decode(lines[n]).text
                      key == IF gen[g].cs THEN KeyOfLine(t) ELSE Lower(KeyOfLine(t))
                  IN  Len(t) > 0 =>
                        /\ key \in DOMAIN e.header
                        /\ \E m \in 1..Len(e.header[key]) :
                              e.header[key][m] = ValueOfLine(t)

\* the <<key, value>> pairs of the non-empty lines of a header block whose
\* lines all decode, in line order, keys as written
NonEmpty(l) == Len(l) > 0

LinePairs(header_block) ==
    LET lines == SelectSeq(Split(header_block, LINE_DELIMITER), NonEmpty)
    IN  [n \in 1..Len(lines) |-> KeyValue(Utf8Decode(lines[n]).text)]

\* lowercase folding of an ASCII key, written out
Folded(t) == [i \in 1..Len(t) |-> IF t[i] \in 65..90 THEN t[i] + 32 ELSE t[i]]

\* the values, in line order, of the pairs whose key (folded or not) is k
ValuesUnder(pairs, k, fold) ==
    LET Hit(p) == (IF fold THEN Folded(p[1]) ELSE p[1]) = k
        hits   == SelectSeq(pairs, Hit)
    IN  [n \in 1..Len(hits) |-> hits[n][2]]

KeysOf(pairs, fold) ==
    {IF fold THEN Folded(pairs[n][1]) ELSE pairs[n][1] : n \in 1..Len(pairs)}

\* the number of values a mapping holds
RECURSIVE NumValues(_, _)
NumValues(d, keys) ==
    IF keys = {} THEN 0
    ELSE LET k == CHOOSE x \in keys : TRUE
         IN  Len(d[k]) + NumValues(d, keys \ {k})

HeaderParsed(e) == e.kind # "UnicodeDecodeError"

\* C11: the parsed mapping has exactly the keys of the non-empty header
\* lines, each key maps to the values of all its lines in line order, and the
\* mapping holds one value per non-empty line
C11_AllValuesInOrder ==
    \A g \in Live : \A i \in 1..Len(gen[g].log) :
        LET e     == gen[g].log[i]
            pairs == LinePairs(e.header_block)
            fold  == ~gen[g].cs
        IN  HeaderParsed(e) =>
              /\ DOMAIN e.header = KeysOf(pairs, fold)
              /\ \A k \in DOMAIN e.header : e.header[k] = ValuesUnder(pairs, k, fold)
              /\ NumValues(e.header, DOMAIN e.header) = Len(pairs)

C11_Witness ==
    \E g \in Live : \E i \in 1..Len(gen[g].log) :
        /\ gen[g].cs
        /\ gen[g].log[i].kind = "Entry"
        /\ \E k \in DOMAIN gen[g].log[i].header :
              /\ Len(gen[g].log[i].header[k]) = 2
              /\ gen[g].log[i].header[k][1] # gen[g].log[i].header[k][2]

\* C12: the same header block parsed with the flag on and off: the keys with
\* the flag off are the lowercase foldings of the keys with it on, each holds
\* the values of all lines whose key folds to it in line order, and both
\* mappings hold the same number of values
C12_CaseFoldKeepsValues ==
    \A g \in Live : \A i \in 1..Len(gen[g].log) :
        LET e     == gen[g].log[i]
            on    == _parse_header(e.header_block, TRUE).dict
            off   == _parse_header(e.header_block, FALSE).dict
            pairs == LinePairs(e.header_block)
        IN  HeaderParsed(e) =>
              /\ e.header = (IF gen[g].cs THEN on ELSE off)
              /\ DOMAIN off = {Folded(k) : k \in DOMAIN on}
              /\ \A k \in DOMAIN off : off[k] = ValuesUnder(pairs, k, TRUE)
              /\ \A k \in DOMAIN on : on[k] = ValuesUnder(pairs, k, FALSE)
              /\ NumValues(off, DOMAIN off) = NumValues(on, DOMAIN on)

C12_Witness ==
    \E g \in Live : \E i \in 1..Len(gen[g].log) :
        LET e   == gen[g].log[i]
            on  == _parse_header(e.header_block, TRUE).dict
            off == _parse_header(e.header_block, FALSE).dict
        IN  /\ HeaderParsed(e)
            /\ ~gen[g].cs
            /\ Cardinality(DOMAIN on) = 2
            /\ Cardinality(DOMAIN off) = 1
            /\ \E k \in DOMAIN off : Len(off[k]) = 3 /\ e.header[k] = off[k]

\* C13 as stated: after a run in which no record was attempted, the
\* end-of-run skip-ratio report completes without a division by zero
C13_ReportCompletes ==
    \A g \in Live :
        (gen[g].pc = "reported" /\ Len(gen[g].log) = 0)
        => gen[g].report.raised = "none"

\* the step of generator g runs the finally clause of the scan loop: after a
\* classified or other error in the same step, or on leaving the yield
CutTaken(g) ==
    \/ /\ gen[g].pc = "scan"
       /\ Len(gen'[g].log) = Len(gen[g].log) + 1
       /\ gen'[g].pc \in {"scan", "raised"}
    \/ /\ gen[g].pc = "yield_loop"
       /\ gen'[g].pc \in {"scan", "closed"}

\* C14 as stated: each cut leaves the old buffer without its first i + 4
\* bytes, and what is dropped is the record plus the full marker, so that no
\* byte of the marker is left
C14_CutDropsMarker ==
    [][\A g \in GenIds :
          CutTaken(g) =>
            LET i == Find(gen[g].buf, BLOCK_DELIMITER)
            IN  /\ gen'[g].buf = Drop(gen[g].buf, i + 4)
                /\ gen'[g].buf = Drop(gen[g].buf, i + Len(BLOCK_DELIMITER))]_vars

\* C14 amended: each cut, whatever the outcome of the record, leaves the old
\* buffer without its first i + 4 bytes; what is dropped is the record plus
\* the two leading line delimiters of the marker, and the rest of the marker,
\* WARC/1.0 CR LF, stays at the head of the buffer
C14_CutDropsTwoDelimiters ==
    [][\A g \in GenIds :
          CutTaken(g) =>
            LET i == Find(gen[g].buf, BLOCK_DELIMITER)
            IN  /\ i >= 0
                /\ gen'[g].buf = Drop(gen[g].buf, i + 4)
                /\ Take(gen[g].buf, i + 4)
                      = Take(gen[g].buf, i) \o LINE_DELIMITER \o LINE_DELIMITER
                /\ Take(gen'[g].buf, 10) = WARC_VERSION \o LINE_DELIMITER]_vars

C14_Witness ==
    \E g \in Live :
        /\ gen[g].pc = "raised"
        /\ gen[g].log[Len(gen[g].log)].kind = "UnicodeDecodeError"
        /\ Take(gen[g].buf, 10) = WARC_VERSION \o LINE_DELIMITER
        /\ Len(gen[g].buf) > 10

\* the records that the delimiters present in data cut off (no final flush)
RECURSIVE DelimitedRecords(_)
DelimitedRecords(data) ==
    LET i == Find(data, BLOCK_DELIMITER)
    IN  IF i = -1 THEN <<>>
        ELSE <<Take(data, i + 2)>> \o DelimitedRecords(Drop(data, i + 4))

\* C15: a chunk is read only when the buffer holds no complete delimiter,
\* and by then every record delimited by the data read so far has been
\* handed to the decoder and either yielded and pulled past, or counted as
\* skipped
C15_ReadOnlyWhenDrained ==
    \A g \in Live :
        gen[g].pc = "read" =>
            /\ running = g
            /\ Find(gen[g].buf, BLOCK_DELIMITER) = -1
            /\ Blocks(gen[g]) = DelimitedRecords(Take(gen[g].input, gen[g].pos))
            /\ Len(gen[g].out) + NumSkipped(gen[g]) = Len(gen[g].log)
            /\ loaded_counter = Len(gen[g].out)
            /\ skip_counter = NumSkipped(gen[g])

C15_Witness ==
    \E g \in Live :
        /\ gen[g].pc = "read"
        /\ gen[g].size = 7
        /\ Len(gen[g].out) = 1
        /\ gen[g].pos < Len(gen[g].input)

\* a bound on the steps an iteration still has to take: bytes not yet read,
\* bytes still buffered, and the position in the body
Rank(pc) ==
    IF pc = "created" THEN 5
    ELSE IF pc = "scan" THEN 4
    ELSE IF pc \in {"read", "yield_loop"} THEN 3
    ELSE IF pc = "flush" THEN 2
    ELSE IF pc = "yield_flush" THEN 1
    ELSE 0

Measure(G) == 4 * (Len(G.input) - G.pos) + 2 * Len(G.buf) + Rank(G.pc)

InProgress(G) == G.pc \in {"created", "read", "scan", "yield_loop", "flush", "yield_flush"}

\* C16: every step of an iteration lowers a non-negative bound on the steps
\* left, so a consumer that keeps pulling reaches the end after finitely many
\* steps; every cut strictly shrinks the buffer, a scan that finds no
\* delimiter leaves the inner loop, and after end of stream at most one more
\* record is attempted and the iteration ends with the buffer cleared
C16_Terminates ==
    [][\A g \in GenIds :
          (InProgress(gen[g]) /\ gen'[g] # gen[g]) =>
             /\ Measure(gen'[g]) < Measure(gen[g])
             /\ Measure(gen'[g]) >= 0
             /\ CutTaken(g) => Len(gen'[g].buf) < Len(gen[g].buf)
             /\ (gen[g].pc = "scan" /\ Find(gen[g].buf, BLOCK_DELIMITER) = -1)
                   => gen'[g].pc = "read"
             /\ gen[g].pc = "flush" =>
                   /\ Len(gen'[g].log) <= Len(gen[g].log) + 1
                   /\ gen'[g].pc \in {"done", "raised", "yield_flush"}
                   /\ gen'[g].pc \in {"done", "raised"} => gen'[g].buf = <<>>
             /\ gen[g].pc = "yield_flush" =>
                   /\ gen'[g].log = gen[g].log
                   /\ gen'[g].pc \in {"done", "closed"}
                   /\ gen'[g].buf = <<>>]_vars

C16_Witness ==
    \E g \in Live :
        /\ gen[g].pc = "done"
        /\ gen[g].size = 1
        /\ gen[g].f.reads > 30
        /\ Len(gen[g].log) = 3

AtYield(G) == G.pc \in {"yield_loop", "yield_flush"}

\* C17: while the consumer holds the k-th entry loaded_counter is k-1; the
\* entry is counted when the consumer pulls again, and if the consumer
\* abandons the iteration instead, loaded_counter stays k-1
C17_LoadedLagsByOne ==
    [][\A g \in GenIds :
          /\ AtYield(gen'[g]) => loaded_counter' = Len(gen'[g].out) - 1
          /\ (AtYield(gen[g]) /\ gen'[g].pc \in {"scan", "done"})
                => loaded_counter' = Len(gen[g].out)
          /\ (AtYield(gen[g]) /\ gen'[g].pc = "closed")
                => (loaded_counter' = Len(gen[g].out) - 1 /\ gen'[g].out = gen[g].out)]_vars

C17_Witness ==
    \E g \in Live :
        /\ gen[g].pc = "closed"
        /\ Len(gen[g].out) = 2
        /\ loaded_counter = 1

VersionLine == WARC_VERSION \o LINE_DELIMITER

EndsWithMarker(data) ==
    /\ Len(data) >= Len(BLOCK_DELIMITER)
    /\ Drop(data, Len(data) - Len(BLOCK_DELIMITER)) = BLOCK_DELIMITER

\* C18: once a cut has been made the buffer begins with WARC/1.0 CR LF (so it
\* is not empty), every slice after the first begins with that line, which is
\* its first header line whenever the slice has a blank line, and a stream
\* that ends with the marker gives a last record made of that line alone,
\* attempted and counted like any other
C18_VersionLineStays ==
    \A g \in Live :
        /\ (gen[g].pc \in {"scan", "read", "flush"} /\ Len(gen[g].log) >= 1)
              => Take(gen[g].buf, Len(VersionLine)) = VersionLine
        /\ \A i \in 2..Len(gen[g].log) :
              LET e == gen[g].log[i]
              IN  /\ Take(e.block, Len(VersionLine)) = VersionLine
                  /\ HasBlankLine(e.block) =>
                        Split(e.header_block, LINE_DELIMITER)[1] = WARC_VERSION
        /\ (gen[g].pc = "done" /\ EndsWithMarker(gen[g].input)) =>
              /\ Len(gen[g].log) >= 2
              /\ gen[g].log[Len(gen[g].log)].block = VersionLine
              /\ loaded_counter + skip_counter = Len(gen[g].log)

C18_Witness ==
    \E g \in Live :
        /\ gen[g].pc = "done"
        /\ EndsWithMarker(gen[g].input)
        /\ Len(gen[g].records[1]) > 1
        /\ Len(gen[g].log) = 2
        /\ gen[g].log[1].kind = "Entry"
        /\ gen[g].log[2].block = VersionLine
        /\ gen[g].log[2].kind = "EncodingDetectionError"
        /\ skip_counter = 1

\* C19: a record without two consecutive line delimiters is not refused and
\* is not taken whole as header: the header block is its first byte, the body
\* block its bytes from the fourth on, the second and third bytes are in
\* neither, and the parsed header has the one key that first byte gives
C19_NoBlankLineSplit ==
    \A g \in Live : \A i \in 1..Len(gen[g].log) :
        LET e == gen[g].log[i]
        IN  ~HasBlankLine(e.block) =>
              /\ e.header_block = SubSeq(e.block, 1, 1)
              /\ e.body_block = SubSeq(e.block, 4, Len(e.block))
              /\ e.block[1] < 128 =>
                    /\ e.kind \in {"Entry", "EncodingDetectionError", "DecodingFailureError"}
                    /\ DOMAIN e.header =
                          {IF gen[g].cs THEN Strip(<<e.block[1]>>)
                                        ELSE Folded(Strip(<<e.block[1]>>))}

C19_Witness ==
    \E g \in Live : \E i \in 1..Len(gen[g].log) :
        LET e == gen[g].log[i]
        IN  /\ ~HasBlankLine(e.block)
            /\ e.kind = "Entry"
            /\ Len(e.block) > 10
            /\ e.header_block = <<87>>
            /\ e.body_block = Drop(e.block, 3)
            /\ Len(e.body_block) = Len(e.block) - 3

\* C20: the call of parse leaves both counters as the previous run left
\* them, they stay so while the new iteration has not been pulled (also when
\* it is dropped unpulled), and the first pull sets both to zero
C20_ResetOnFirstPull ==
    [][\A g \in GenIds :
          /\ (gen[g].pc = "none" /\ gen'[g].pc = "created")
                => (loaded_counter' = loaded_counter /\ skip_counter' = skip_counter)
          /\ gen'[g].pc = "created"
                => (gen'[g].stale <=> loaded_counter' + skip_counter' > 0)
          /\ (gen[g].pc = "created" /\ gen'[g].pc = "read")
                => (loaded_counter' = 0 /\ skip_counter' = 0)
          /\ (gen[g].pc = "created" /\ gen'[g].pc \notin {"created", "read"})
                => (loaded_counter' = loaded_counter /\ skip_counter' = skip_counter)]_vars

C20_Witness ==
    \E g \in Live :
        /\ gen[g].pc = "created"
        /\ runs = 2
        /\ gen[g].stale
        /\ loaded_counter = 1
        /\ skip_counter = 1

====
